---- MODULE Spec2Model ----
(***************************************************************************)
(* Model of the crosscan crate: the CanFrame data model (src/src/can.rs)   *)
(* and the named-pipe transport adapter WindowsCan (src/src/win_can.rs),   *)
(* including the bincode wire encoding of a frame and the relay on the far *)
(* side of the pipes.                                                      *)
(***************************************************************************)
EXTENDS Integers, Sequences, FiniteSets, TLC

(***************************************************************************)
(* Bounds of the model.                                                    *)
(***************************************************************************)
MaxPayloadLen == 9      \* caller payloads have 0..MaxPayloadLen bytes
MaxTraffic == 1         \* records put on the frame pipes: write_frame calls that
                        \* reach the pipe plus records the relay feeds
MaxCut == 1             \* a failed or dropped transfer moved 0..MaxCut bytes

(***************************************************************************)
(* Program constants.                                                      *)
(***************************************************************************)
STD_ID_MAX == 2047            \* 0x7FF
EXT_ID_MAX == 536870911       \* 0x1FFFFFFF
MAX_DATA_LEN == 8
SINGLE_BYTE_MAX == 250        \* bincode varint: largest value sent as one byte
NEWLINE == 10                 \* b"\n"
WIN_CAN_UTILS_TARGET_VERSION == "0.2.0"

(***************************************************************************)
(* Rust values: Option<T> is a sequence of length 0 or 1, Result<T, E> a   *)
(* record.                                                                 *)
(***************************************************************************)
None == << >>
Some(v) == << v >>
Ok(v) == [ok |-> TRUE, val |-> << v >>, err |-> ""]
Err(e) == [ok |-> FALSE, val |-> << >>, err |-> e]
Unwrap(r) == r.val[1]

Min(a, b) == IF a < b THEN a ELSE b

RECURSIVE Zeros(_)
Zeros(n) == IF n <= 0 THEN << >> ELSE << 0 >> \o Zeros(n - 1)

(***************************************************************************)
(* CanFrame (can.rs).                                                      *)
(***************************************************************************)
\* faulty variant: the ID space is not looked at
validate_id_one_space(can_id, extended) ==
    IF can_id > EXT_ID_MAX
    THEN Err("Extended ID must be <= 29 bits (0x1FFFFFFF)")
    ELSE Ok(TRUE)

validate_id(can_id, extended) ==
    IF extended
    THEN IF can_id > EXT_ID_MAX
         THEN Err("Extended ID must be <= 29 bits (0x1FFFFFFF)")
         ELSE Ok(TRUE)
    ELSE IF can_id > STD_ID_MAX
         THEN Err("Standard ID must be <= 11 bits (0x7FF)")
         ELSE Ok(TRUE)

\* faulty variant: the length check is off by one
validate_data_off_by_one(bytes) ==
    IF Len(bytes) > MAX_DATA_LEN + 1
    THEN Err("CAN data must be <= 8 bytes")
    ELSE Ok(TRUE)

validate_data(bytes) ==
    IF Len(bytes) > MAX_DATA_LEN
    THEN Err("CAN data must be <= 8 bytes")
    ELSE Ok(TRUE)

\* let mut buf = [0u8; 8]; buf[..data.len()].copy_from_slice(data);
CopyIntoBuf(bytes) == bytes \o Zeros(MAX_DATA_LEN - Len(bytes))

DataFrame(can_id, bytes, extended) ==
    [id |-> can_id, data |-> CopyIntoBuf(bytes), dlc |-> Len(bytes),
     is_extended |-> extended, is_rtr |-> FALSE, is_error |-> FALSE,
     timestamp |-> None]

new(can_id, bytes) ==
    IF ~validate_id(can_id, FALSE).ok THEN Err(validate_id(can_id, FALSE).err)
    ELSE IF ~validate_data(bytes).ok THEN Err(validate_data(bytes).err)
    ELSE Ok(DataFrame(can_id, bytes, FALSE))

\* faulty variant: the id is not validated
new_eff_unvalidated_id(can_id, bytes) ==
    IF ~validate_data(bytes).ok THEN Err(validate_data(bytes).err)
    ELSE Ok(DataFrame(can_id, bytes, TRUE))

new_eff(can_id, bytes) ==
    IF ~validate_id(can_id, TRUE).ok THEN Err(validate_id(can_id, TRUE).err)
    ELSE IF ~validate_data(bytes).ok THEN Err(validate_data(bytes).err)
    ELSE Ok(DataFrame(can_id, bytes, TRUE))

\* faulty variant: the id is always checked against the standard range
new_remote_std_only(can_id, len, extended) ==
    IF len > MAX_DATA_LEN THEN Err("RTR frame DLC must be <= 8")
    ELSE IF ~validate_id(can_id, FALSE).ok THEN Err(validate_id(can_id, FALSE).err)
    ELSE Ok([id |-> can_id, data |-> Zeros(MAX_DATA_LEN), dlc |-> len,
             is_extended |-> extended, is_rtr |-> TRUE, is_error |-> FALSE,
             timestamp |-> None])

new_remote(can_id, len, extended) ==
    IF len > MAX_DATA_LEN THEN Err("RTR frame DLC must be <= 8")
    ELSE IF ~validate_id(can_id, extended).ok THEN Err(validate_id(can_id, extended).err)
    ELSE Ok([id |-> can_id, data |-> Zeros(MAX_DATA_LEN), dlc |-> len,
             is_extended |-> extended, is_rtr |-> TRUE, is_error |-> FALSE,
             timestamp |-> None])

\* faulty variant: the id is checked against the standard range
new_error_std_range(can_id) ==
    IF can_id > STD_ID_MAX THEN Err("CAN error frame ID must be <= 29 bits")
    ELSE Ok([id |-> can_id, data |-> Zeros(MAX_DATA_LEN), dlc |-> 0,
             is_extended |-> FALSE, is_rtr |-> FALSE, is_error |-> TRUE,
             timestamp |-> None])

new_error(can_id) ==
    IF can_id > EXT_ID_MAX THEN Err("CAN error frame ID must be <= 29 bits")
    ELSE Ok([id |-> can_id, data |-> Zeros(MAX_DATA_LEN), dlc |-> 0,
             is_extended |-> FALSE, is_rtr |-> FALSE, is_error |-> TRUE,
             timestamp |-> None])

\* faulty variant: the frame is taken by value, the caller's frame stays as it was
set_timestamp_by_value(f, ts) == f

set_timestamp(f, ts) == [f EXCEPT !.timestamp = ts]

timestamp(f) == f.timestamp
id(f) == f.id
\* faulty variant: the whole buffer
data_full_buffer(f) == f.data

\* &self.data[..self.dlc]
data(f) == SubSeq(f.data, 1, f.dlc)
dlc(f) == f.dlc
is_extended(f) == f.is_extended
is_rtr(f) == f.is_rtr
is_error(f) == f.is_error

(***************************************************************************)
(* Conversion to and from socketcan::CanFrame (can.rs, Linux only).  The   *)
(* native frame is the kernel's can_frame: the id word (the id bits and    *)
(* the EFF / RTR / ERR flags), the length and 8 data bytes, tagged with    *)
(* its kind.                                                               *)
(***************************************************************************)
U16_MODULUS == 65536          \* `as u16` keeps the low 16 bits
CAN_SFF_MASK == 2047
CAN_EFF_MASK == 536870911
CAN_ERR_MASK == 536870911

\* StandardId::new(raw: u16) -> Option<StandardId>
StandardId_new(raw) ==
    IF raw <= CAN_SFF_MASK THEN Some([ext |-> FALSE, raw |-> raw]) ELSE None

\* ExtendedId::new(raw: u32) -> Option<ExtendedId>
ExtendedId_new(raw) ==
    IF raw <= CAN_EFF_MASK THEN Some([ext |-> TRUE, raw |-> raw]) ELSE None

NativeFrame(kind, eff, bits, bytes) ==
    [kind |-> kind, eff |-> eff, bits |-> bits, dlc |-> Len(bytes),
     data |-> CopyIntoBuf(bytes)]

\* CanDataFrame::new(id, data) -> Option<Self>
CanDataFrame_new(sc_id, bytes) ==
    IF Len(bytes) > MAX_DATA_LEN THEN None
    ELSE Some(NativeFrame("Data", sc_id.ext, sc_id.raw, bytes))

\* CanRemoteFrame::new(id, data) -> Option<Self>: a request for data.len() bytes
CanRemoteFrame_new(sc_id, bytes) ==
    IF Len(bytes) > MAX_DATA_LEN THEN None
    ELSE Some(NativeFrame("Remote", sc_id.ext, sc_id.raw, Zeros(Len(bytes))))

\* CanErrorFrame::new_error(can_id, data) -> Result<Self, ConstructionError>
CanErrorFrame_new_error(can_id, bytes) ==
    IF can_id > CAN_ERR_MASK THEN None
    ELSE IF Len(bytes) > MAX_DATA_LEN THEN None
    ELSE Some(NativeFrame("Error", FALSE, can_id, bytes))

\* Option::unwrap / Result::unwrap: the value, or the thread panics
UnwrapOr(o) == IF o = None THEN Err("panic") ELSE Ok(o[1])

\* let sc_id = if self.is_extended() { .. } else { .. }.unwrap();
sc_id_of(f) ==
    IF is_extended(f) THEN UnwrapOr(ExtendedId_new(id(f)))
    ELSE UnwrapOr(StandardId_new(id(f) % U16_MODULUS))

\* impl Into<socketcan::CanFrame> for CanFrame
into(f) ==
    LET sc_id == sc_id_of(f) IN
    IF ~sc_id.ok THEN Err("panic")
    ELSE IF is_error(f) THEN UnwrapOr(CanErrorFrame_new_error(id(f), data(f)))
    ELSE IF is_rtr(f) THEN UnwrapOr(CanRemoteFrame_new(Unwrap(sc_id), data(f)))
    ELSE UnwrapOr(CanDataFrame_new(Unwrap(sc_id), data(f)))

\* sc.id(): the id bits of the id word, in the ID space its EFF flag names
sc_id_raw(sc) == IF sc.eff THEN sc.bits % (CAN_EFF_MASK + 1) ELSE sc.bits % (CAN_SFF_MASK + 1)

sc_data(sc) == SubSeq(sc.data, 1, sc.dlc)

\* impl From<socketcan::CanFrame> for CanFrame; an Err here is the unwrap panicking
from(sc) ==
    LET id_raw == sc_id_raw(sc) IN
    IF sc.kind = "Remote" THEN new_remote(id_raw, Len(sc_data(sc)), sc.eff)
    ELSE IF sc.kind = "Error" THEN new_error(id_raw)
    ELSE IF sc.eff THEN new_eff(id_raw, sc_data(sc))
    ELSE new(id_raw, sc_data(sc))

(***************************************************************************)
(* Inputs of the frame constructors.                                       *)
(***************************************************************************)
Ids == {0, 13, 291, STD_ID_MAX, STD_ID_MAX + 1, U16_MODULUS, EXT_ID_MAX, EXT_ID_MAX + 1}

\* Option<u64> arguments of set_timestamp
Timestamps == {None, Some(0), Some(1700000000)}

PayloadByte(i) == IF i = 1 THEN 222 ELSE IF i = 2 THEN 173 ELSE i

Payload(n) == [i \in 1..n |-> PayloadByte(i)]

Payloads == {Payload(n) : n \in 0..MaxPayloadLen}

(***************************************************************************)
(* bincode (standard configuration: little endian, variable-length         *)
(* integers) of the derived Serialize / Deserialize of CanFrame.           *)
(***************************************************************************)
U16_BYTE == 251
U32_BYTE == 252
U64_BYTE == 253

\* little-endian bytes of n, width w
RECURSIVE LeBytes(_, _)
LeBytes(n, w) == IF w = 0 THEN << >> ELSE << n % 256 >> \o LeBytes(n \div 256, w - 1)

\* little-endian value of buf[pos .. pos + w - 1]
RECURSIVE LeValue(_, _, _)
LeValue(buf, pos, w) ==
    IF w = 0 THEN 0 ELSE buf[pos] + 256 * LeValue(buf, pos + 1, w - 1)

\* values of the model stay below 2^31, so the u64 and u128 forms are never written
EncodeVarint(n) ==
    IF n <= SINGLE_BYTE_MAX THEN << n >>
    ELSE IF n < 65536 THEN << U16_BYTE >> \o LeBytes(n, 2)
    ELSE << U32_BYTE >> \o LeBytes(n, 4)

EncodeBool(b) == IF b THEN << 1 >> ELSE << 0 >>

EncodeOption(o) == IF o = None THEN << 0 >> ELSE << 1 >> \o EncodeVarint(o[1])

\* fields in declaration order: id, data, dlc, is_extended, is_rtr, is_error, timestamp
SerializeFrame(f) ==
    EncodeVarint(f.id) \o f.data \o EncodeVarint(f.dlc) \o EncodeBool(f.is_extended)
        \o EncodeBool(f.is_rtr) \o EncodeBool(f.is_error) \o EncodeOption(f.timestamp)

encode_to_vec(f) == Ok(SerializeFrame(f))

DecFail == [ok |-> FALSE, val |-> 0, next |-> 0]
DecOk(v, n) == [ok |-> TRUE, val |-> v, next |-> n]

\* maxDisc is the widest discriminant the target integer type accepts
DecodeVarint(buf, pos, maxDisc) ==
    IF pos > Len(buf) THEN DecFail
    ELSE LET b == buf[pos]
             w == IF b = U16_BYTE THEN 2 ELSE IF b = U32_BYTE THEN 4 ELSE 8
         IN IF b <= SINGLE_BYTE_MAX THEN DecOk(b, pos + 1)
            ELSE IF b > maxDisc THEN DecFail
            ELSE IF pos + w > Len(buf) THEN DecFail
            ELSE DecOk(LeValue(buf, pos + 1, w), pos + 1 + w)

DecodeBool(buf, pos) ==
    IF pos > Len(buf) THEN DecFail
    ELSE IF buf[pos] = 0 THEN DecOk(FALSE, pos + 1)
    ELSE IF buf[pos] = 1 THEN DecOk(TRUE, pos + 1)
    ELSE DecFail

DecodeArray(buf, pos) ==
    IF pos + MAX_DATA_LEN - 1 > Len(buf) THEN DecFail
    ELSE DecOk(SubSeq(buf, pos, pos + MAX_DATA_LEN - 1), pos + MAX_DATA_LEN)

DecodeOption(buf, pos) ==
    IF pos > Len(buf) THEN DecFail
    ELSE IF buf[pos] = 0 THEN DecOk(None, pos + 1)
    ELSE IF buf[pos] = 1
         THEN LET v == DecodeVarint(buf, pos + 1, U64_BYTE)
              IN IF v.ok THEN DecOk(Some(v.val), v.next) ELSE DecFail
    ELSE DecFail

\* Deserialize builds the struct from the fields as decoded: no constructor,
\* no validation; bytes after the last field are ignored.
decode_from_slice(buf) ==
    LET ident == DecodeVarint(buf, 1, U32_BYTE) IN
    IF ~ident.ok THEN Err("DecodeError") ELSE
    LET arr == DecodeArray(buf, ident.next) IN
    IF ~arr.ok THEN Err("DecodeError") ELSE
    LET len == DecodeVarint(buf, arr.next, U64_BYTE) IN
    IF ~len.ok THEN Err("DecodeError") ELSE
    LET ext == DecodeBool(buf, len.next) IN
    IF ~ext.ok THEN Err("DecodeError") ELSE
    LET rtr == DecodeBool(buf, ext.next) IN
    IF ~rtr.ok THEN Err("DecodeError") ELSE
    LET er == DecodeBool(buf, rtr.next) IN
    IF ~er.ok THEN Err("DecodeError") ELSE
    LET ts == DecodeOption(buf, er.next) IN
    IF ~ts.ok THEN Err("DecodeError") ELSE
    Ok([id |-> ident.val, data |-> arr.val, dlc |-> len.val,
        is_extended |-> ext.val, is_rtr |-> rtr.val, is_error |-> er.val,
        timestamp |-> ts.val])

(***************************************************************************)
(* State.                                                                  *)
(*   call       last CanFrame constructor / mutator call and its result    *)
(*   relay_doc  the config document the relay serves on can_<ch>_config_out*)
(*   out_pipe   bytes on can_<ch>_out (relay -> caller) not yet consumed   *)
(*   out_closed the relay closed its end of can_<ch>_out                   *)
(*   in_pipe    bytes delivered on can_<ch>_in (caller -> relay)           *)
(*   adapter    "Closed" before open, "Open" when open returned Ok(Self),  *)
(*              "Failed" when it returned Err                              *)
(*   reader, writer   the Option fields of WindowsCan                      *)
(*   pc, loc    position and locals of the read_frame / write_frame future *)
(*              in flight (&mut self: at most one)                         *)
(*   result     what the last finished call returned                       *)
(*   hist       history of the run, read by the properties only            *)
(***************************************************************************)
VARIABLES call, relay_doc, out_pipe, out_closed, in_pipe, adapter, reader, writer,
          pc, loc, result, hist

vars == << call, relay_doc, out_pipe, out_closed, in_pipe, adapter, reader, writer,
           pc, loc, result, hist >>

pipeVars == << relay_doc, out_pipe, out_closed, in_pipe, adapter, reader, writer,
               pc, loc, result, hist >>

(***************************************************************************)
(* The relay's config document: what serde_json makes of the bytes read    *)
(* from the config pipe.  wellformed = the bytes are a JSON object with a  *)
(* string field version and a bitrate that is a number, null or absent.    *)
(***************************************************************************)
Doc(w, v, b) == [wellformed |-> w, version |-> v, bitrate |-> b]

Docs == { Doc(TRUE, WIN_CAN_UTILS_TARGET_VERSION, Some(500000)),
          Doc(TRUE, "0.1.0", Some(250000)),
          Doc(FALSE, "", None) }

\* serde_json::from_slice::<CanServerConfig>; `?` turns its error into an io::Error
from_slice(doc) ==
    IF doc.wellformed
    THEN Ok([bitrate |-> doc.bitrate, version |-> doc.version])
    ELSE Err("InvalidData")

\* connect to the config pipe, read it to the end, parse
get_config(pipe_up, doc) ==
    IF ~pipe_up THEN Err("NotFound") ELSE from_slice(doc)

NoAdapter(e) == [res |-> Err(e), reader |-> "None", writer |-> "None"]

\* open: both pipes, then the version check
open(out_ok, in_ok, cfg_up, doc) ==
    IF ~out_ok THEN NoAdapter("NotFound")
    ELSE IF ~in_ok THEN NoAdapter("NotFound")
    ELSE LET cfg == get_config(cfg_up, doc)
         IN IF ~cfg.ok THEN NoAdapter(cfg.err)
            ELSE IF Unwrap(cfg).version # WIN_CAN_UTILS_TARGET_VERSION
                 THEN NoAdapter("InvalidData")
            ELSE [res |-> Ok(TRUE), reader |-> "Some", writer |-> "Some"]

\* faulty variant: the read-only open connects the write pipe as well
open_read_only_both_pipes(out_ok) ==
    IF ~out_ok THEN NoAdapter("NotFound")
    ELSE [res |-> Ok(TRUE), reader |-> "Some", writer |-> "Some"]

open_read_only(out_ok) ==
    IF ~out_ok THEN NoAdapter("NotFound")
    ELSE [res |-> Ok(TRUE), reader |-> "Some", writer |-> "None"]

open_write_only(in_ok) ==
    IF ~in_ok THEN NoAdapter("NotFound")
    ELSE [res |-> Ok(TRUE), reader |-> "None", writer |-> "Some"]

\* faulty variant: the bitrate of the document served when the adapter was opened
get_bitrate_captured(cfg_up, doc) == Ok(hist.open_doc[1].bitrate)

get_bitrate(cfg_up, doc) ==
    LET config == get_config(cfg_up, doc)
    IN IF ~config.ok THEN Err(config.err) ELSE Ok(Unwrap(config).bitrate)

NoLoc == [frame |-> None, data |-> << >>, len_prefix |-> 0, start |-> 0]

\* what a call returned: the Ok value of read_frame is a frame, of get_bitrate an
\* Option<u32>, of the other calls ()
Result(op, res) ==
    [op |-> op, ok |-> res.ok, err |-> res.err,
     frame |-> IF op = "read_frame" THEN res.val ELSE None,
     bitrate |-> IF op = "get_bitrate" THEN res.val ELSE None]

Failed(r, kind) == ~r.ok /\ r.err = kind

InitHist ==
    [loopback |-> FALSE,     \* the relay sends back what it receives
     mode |-> "none",        \* how the adapter was opened
     open_doc |-> None,      \* the document the relay served when open was called
     open_cfg |-> FALSE,     \* open connected to the config pipe
     cfg_reads |-> FALSE,    \* the config pipe was connected to after open returned
     writes |-> 0,           \* write_frame calls that reached the pipe
     fed |-> 0,              \* records fed by the relay
     frame_io |-> FALSE,     \* some byte was read from or written to a frame pipe
     flushed |-> FALSE,      \* the last write_frame ran flush to completion
     zero_read |-> FALSE,    \* a read_exact of the last read_frame obtained zero bytes
     undecodable |-> FALSE,  \* the last read_frame took a payload that does not decode
     taken |-> << >>,        \* the payload bytes the last read_frame consumed
     desync |-> FALSE,       \* a read_frame failed after it took the length byte and
                             \* before it had the whole payload
     \* kept under the loopback relay only:
     faults |-> FALSE,       \* a transport error or a cancellation happened
     echoed |-> 0,           \* bytes of in_pipe the relay sent back
     written |-> << >>,      \* frames of the write_frame calls that returned Ok
     received |-> << >>,     \* frames returned by read_frame
     read_fail |-> FALSE]    \* some read_frame returned Err

Fault(h) == [h EXCEPT !.faults = h.loopback]

PipeInit ==
    /\ relay_doc \in Docs
    /\ out_pipe = << >>
    /\ out_closed = FALSE
    /\ in_pipe = << >>
    /\ adapter = "Closed"
    /\ reader = "None"
    /\ writer = "None"
    /\ pc = "idle"
    /\ loc = NoLoc
    /\ result = Result("none", Ok(TRUE))
    /\ hist = InitHist

NoCall == [fn |-> "none", id |-> 0, data |-> << >>, len |-> 0, extended |-> FALSE,
           ts |-> None, res |-> Err("no call"), stamped |-> FALSE,
           native |-> Err("no call"), back |-> Err("no call")]

Init == call = NoCall /\ PipeInit

(***************************************************************************)
(* Opening the adapter.                                                    *)
(***************************************************************************)
Opened(mode, o, cfg_read) ==
    /\ adapter' = IF o.res.ok THEN "Open" ELSE "Failed"
    /\ reader' = o.reader
    /\ writer' = o.writer
    /\ result' = Result(mode, o.res)
    /\ hist' = [hist EXCEPT !.mode = mode, !.open_doc = Some(relay_doc),
                            !.open_cfg = cfg_read]
    /\ UNCHANGED << call, relay_doc, out_pipe, out_closed, in_pipe, pc, loc >>

Open ==
    /\ adapter = "Closed"
    /\ \E out_ok, in_ok, cfg_up \in BOOLEAN :
         Opened("open", open(out_ok, in_ok, cfg_up, relay_doc), out_ok /\ in_ok /\ cfg_up)

OpenReadOnly ==
    /\ adapter = "Closed"
    /\ \E out_ok \in BOOLEAN : Opened("open_read_only", open_read_only(out_ok), FALSE)

OpenWriteOnly ==
    /\ adapter = "Closed"
    /\ \E in_ok \in BOOLEAN : Opened("open_write_only", open_write_only(in_ok), FALSE)

(***************************************************************************)
(* get_bitrate: one call, one connection to the config pipe.               *)
(***************************************************************************)
GetBitrate ==
    /\ adapter = "Open"
    /\ pc = "idle"
    /\ \E cfg_up \in BOOLEAN :
         /\ result' = Result("get_bitrate", get_bitrate(cfg_up, relay_doc))
         /\ hist' = [hist EXCEPT !.cfg_reads = @ \/ cfg_up]
    /\ UNCHANGED << call, relay_doc, out_pipe, out_closed, in_pipe, adapter, reader,
                    writer, pc, loc >>

(***************************************************************************)
(* read_frame.  read_exact on the BufReader: waits until n bytes are there *)
(* and returns Ok(n), or fails with UnexpectedEof when the stream ends     *)
(* first; with n = 0 it returns Ok(0) at once.                             *)
(***************************************************************************)
reader_of(r) == IF r = "None" THEN Err("InvalidData") ELSE Ok(r)

\* faulty variant: a count of zero is let through
check_bytes_none(num_bytes) == Ok(TRUE)

check_bytes(num_bytes) ==
    IF num_bytes = 0 THEN Err("UnexpectedEof") ELSE Ok(TRUE)

read_exact(stream, closed, n) ==
    IF Len(stream) >= n
    THEN [ready |-> TRUE, res |-> Ok(n), bytes |-> SubSeq(stream, 1, n),
          rest |-> SubSeq(stream, n + 1, Len(stream))]
    ELSE [ready |-> closed, res |-> Err("UnexpectedEof"), bytes |-> stream,
          rest |-> << >>]

\* faulty variant: a decode failure is reported as the end of the stream
decode_result_as_eof(buf) ==
    LET d == decode_from_slice(buf)
    IN IF d.ok THEN Ok(Unwrap(d)) ELSE Err("UnexpectedEof")

\* match bincode::serde::decode_from_slice(..) { Ok((frame, _)) => .., Err(e) => .. }
decode_result(buf) ==
    LET d == decode_from_slice(buf)
    IN IF d.ok THEN Ok(Unwrap(d)) ELSE Err("Other")

\* the rest of read_frame once read_exact(&mut buf) returned r
read_payload(r) ==
    IF ~r.res.ok THEN Err(r.res.err)
    ELSE IF ~check_bytes(Unwrap(r.res)).ok THEN Err(check_bytes(Unwrap(r.res)).err)
    ELSE decode_result(r.bytes)

\* the read_frame future ends with res
ReadDone(res, h) ==
    /\ pc' = "idle"
    /\ result' = Result("read_frame", res)
    /\ hist' = IF h.loopback
               THEN [h EXCEPT !.received = IF res.ok THEN Append(@, Unwrap(res)) ELSE @,
                              !.read_fail = @ \/ ~res.ok]
               ELSE h

ReadCall ==
    /\ adapter = "Open"
    /\ pc = "idle"
    /\ LET h == [hist EXCEPT !.zero_read = FALSE, !.undecodable = FALSE, !.taken = << >>]
       IN IF ~reader_of(reader).ok
          THEN /\ result' = Result("read_frame", Err(reader_of(reader).err))
               /\ hist' = [h EXCEPT !.read_fail = h.loopback]
               /\ UNCHANGED << pc, loc >>
          ELSE /\ pc' = "read_len"
               /\ loc' = NoLoc
               /\ hist' = h
               /\ UNCHANGED result
    /\ UNCHANGED << call, relay_doc, out_pipe, out_closed, in_pipe, adapter, reader, writer >>

\* check_bytes(reader.read_exact(&mut len_prefix).await?)?
ReadLen ==
    /\ pc = "read_len"
    /\ \/ LET r == read_exact(out_pipe, out_closed, 1)
              h == [hist EXCEPT !.zero_read = (Len(r.bytes) = 0),
                                !.frame_io = @ \/ Len(r.bytes) > 0]
          IN /\ r.ready
             /\ out_pipe' = r.rest
             /\ IF ~r.res.ok
                THEN ReadDone(Err(r.res.err), h) /\ UNCHANGED loc
                ELSE IF ~check_bytes(Unwrap(r.res)).ok
                THEN ReadDone(Err(check_bytes(Unwrap(r.res)).err), h) /\ UNCHANGED loc
                ELSE /\ pc' = "read_buf"
                     /\ loc' = [loc EXCEPT !.len_prefix = r.bytes[1]]
                     /\ hist' = h
                     /\ UNCHANGED result
       \/ /\ ReadDone(Err("BrokenPipe"), Fault(hist))
          /\ UNCHANGED << out_pipe, loc >>
    /\ UNCHANGED << call, relay_doc, out_closed, in_pipe, adapter, reader, writer >>

\* check_bytes(reader.read_exact(&mut buf).await?)?  and the decode
ReadBuf ==
    /\ pc = "read_buf"
    /\ \/ LET r == read_exact(out_pipe, out_closed, loc.len_prefix)
              h == [hist EXCEPT !.zero_read = (Len(r.bytes) = 0),
                                !.frame_io = @ \/ Len(r.bytes) > 0,
                                !.taken = r.bytes,
                                !.undecodable = /\ r.res.ok
                                                /\ Len(r.bytes) > 0
                                                /\ ~decode_from_slice(r.bytes).ok]
          IN /\ r.ready
             /\ out_pipe' = r.rest
             /\ ReadDone(read_payload(r), [h EXCEPT !.desync = @ \/ ~r.res.ok])
       \/ \E k \in 0..Min(MaxCut, Min(loc.len_prefix, Len(out_pipe))) :
             /\ out_pipe' = SubSeq(out_pipe, k + 1, Len(out_pipe))
             /\ ReadDone(Err("BrokenPipe"),
                         Fault([hist EXCEPT !.frame_io = @ \/ k > 0, !.desync = TRUE]))
    /\ UNCHANGED << call, relay_doc, out_closed, in_pipe, adapter, reader, writer, loc >>

(***************************************************************************)
(* write_frame.  write_all may fail after part of the bytes went out.      *)
(***************************************************************************)
writer_of(w) == IF w = "None" THEN Err("InvalidData") ELSE Ok(w)

\* frames the caller writes: built by the constructors
WriteFrames == { Unwrap(new(STD_ID_MAX, Payload(2))),
                 Unwrap(new(13, Payload(1))) }

WriteDone(res, h) ==
    /\ pc' = "idle"
    /\ result' = Result("write_frame", res)
    /\ hist' = IF h.loopback /\ res.ok
               THEN [h EXCEPT !.written = Append(@, loc.frame[1])]
               ELSE h

WriteCall ==
    /\ adapter = "Open"
    /\ pc = "idle"
    /\ \E frame \in WriteFrames :
         LET h == [hist EXCEPT !.flushed = FALSE]
             enc == encode_to_vec(frame)
         IN IF ~writer_of(writer).ok
            THEN /\ result' = Result("write_frame", Err(writer_of(writer).err))
                 /\ hist' = h
                 /\ UNCHANGED << pc, loc >>
            ELSE IF ~enc.ok
            THEN /\ result' = Result("write_frame", Err("Other"))
                 /\ hist' = h
                 /\ UNCHANGED << pc, loc >>
            ELSE /\ hist.writes + hist.fed < MaxTraffic
                 /\ pc' = "write_data"
                 /\ loc' = [NoLoc EXCEPT !.frame = Some(frame), !.data = Unwrap(enc),
                                         !.start = Len(in_pipe)]
                 /\ hist' = [h EXCEPT !.writes = @ + 1]
                 /\ UNCHANGED result
    /\ UNCHANGED << call, relay_doc, out_pipe, out_closed, in_pipe, adapter, reader, writer >>

\* faulty variant: the writer was connected to can_<ch>_out, the pipe of the reader
WriteData_on_out_pipe ==
    /\ pc = "write_data"
    /\ \/ /\ out_pipe' = out_pipe \o loc.data
          /\ pc' = "write_nl"
          /\ hist' = [hist EXCEPT !.frame_io = TRUE]
          /\ UNCHANGED result
       \/ \E k \in 0..Min(MaxCut, Len(loc.data) - 1) :
             /\ out_pipe' = out_pipe \o SubSeq(loc.data, 1, k)
             /\ WriteDone(Err("BrokenPipe"),
                          Fault([hist EXCEPT !.frame_io = @ \/ k > 0]))
    /\ UNCHANGED << call, relay_doc, in_pipe, out_closed, adapter, reader, writer, loc >>

\* writer.write_all(&data).await?
WriteData ==
    /\ pc = "write_data"
    /\ \/ /\ in_pipe' = in_pipe \o loc.data
          /\ pc' = "write_nl"
          /\ hist' = [hist EXCEPT !.frame_io = TRUE]
          /\ UNCHANGED result
       \/ \E k \in 0..Min(MaxCut, Len(loc.data) - 1) :
             /\ in_pipe' = in_pipe \o SubSeq(loc.data, 1, k)
             /\ WriteDone(Err("BrokenPipe"),
                          Fault([hist EXCEPT !.frame_io = @ \/ k > 0]))
    /\ UNCHANGED << call, relay_doc, out_pipe, out_closed, adapter, reader, writer, loc >>

\* writer.write_all(b"\n").await?
WriteNewline ==
    /\ pc = "write_nl"
    /\ \/ /\ in_pipe' = in_pipe \o << NEWLINE >>
          /\ pc' = "write_flush"
          /\ UNCHANGED << result, hist >>
       \/ /\ WriteDone(Err("BrokenPipe"), Fault(hist))
          /\ UNCHANGED in_pipe
    /\ UNCHANGED << call, relay_doc, out_pipe, out_closed, adapter, reader, writer, loc >>

\* writer.flush().await?; Ok(())
WriteFlush ==
    /\ pc = "write_flush"
    /\ \/ WriteDone(Ok(TRUE), [hist EXCEPT !.flushed = TRUE])
       \/ WriteDone(Err("BrokenPipe"), Fault(hist))
    /\ UNCHANGED << call, relay_doc, out_pipe, out_closed, in_pipe, adapter, reader,
                    writer, loc >>

(***************************************************************************)
(* The caller drops the future of the call in flight at its await point.   *)
(* read_exact and write_all are not cancel safe: the bytes they moved so   *)
(* far stay moved.                                                         *)
(***************************************************************************)
Cancel ==
    /\ pc # "idle"
    /\ pc' = "idle"
    /\ result' = Result("cancelled", Err("Cancelled"))
    /\ \/ /\ pc = "read_buf"
          /\ \E k \in 0..Min(MaxCut, Min(loc.len_prefix, Len(out_pipe))) :
                /\ out_pipe' = SubSeq(out_pipe, k + 1, Len(out_pipe))
                /\ hist' = Fault([hist EXCEPT !.frame_io = @ \/ k > 0])
          /\ UNCHANGED in_pipe
       \/ /\ pc = "write_data"
          /\ \E k \in 0..Min(MaxCut, Len(loc.data) - 1) :
                /\ in_pipe' = in_pipe \o SubSeq(loc.data, 1, k)
                /\ hist' = Fault([hist EXCEPT !.frame_io = @ \/ k > 0])
          /\ UNCHANGED out_pipe
       \/ /\ pc \in {"read_len", "write_nl", "write_flush"}
          /\ hist' = Fault(hist)
          /\ UNCHANGED << out_pipe, in_pipe >>
    /\ UNCHANGED << call, relay_doc, out_closed, adapter, reader, writer, loc >>

(***************************************************************************)
(* The relay (win_can_utils), the far side of the three pipes.             *)
(***************************************************************************)
\* one record as read_frame takes it: the length byte, then the encoded frame
Framed(payload) == << Len(payload) >> \o payload

\* bytes that decode to a frame no constructor builds: dlc 9, is_rtr and is_error
UnvalidatedBytes == << 13, 0, 0, 0, 0, 0, 0, 0, 0, 9, 0, 1, 1, 0 >>

FeedRecords == { Framed(SerializeFrame(Unwrap(new(STD_ID_MAX, Payload(2))))),
                 Framed(<< 255, 0, 0 >>),
                 Framed(UnvalidatedBytes),
                 Framed(Framed(SerializeFrame(Unwrap(new(13, Payload(1)))))),
                 << 0 >>,
                 << 16 >>,
                 << 16, 13, 222 >> }

RelayFeed ==
    /\ ~hist.loopback
    /\ ~out_closed
    /\ hist.writes + hist.fed < MaxTraffic
    /\ \E rec \in FeedRecords : out_pipe' = out_pipe \o rec
    /\ hist' = [hist EXCEPT !.fed = @ + 1]
    /\ UNCHANGED << call, relay_doc, out_closed, in_pipe, adapter, reader, writer, pc,
                    loc, result >>

RelayEcho ==
    /\ hist.loopback
    /\ ~out_closed
    /\ hist.echoed < Len(in_pipe)
    /\ out_pipe' = out_pipe \o SubSeq(in_pipe, hist.echoed + 1, Len(in_pipe))
    /\ hist' = [hist EXCEPT !.echoed = Len(in_pipe)]
    /\ UNCHANGED << call, relay_doc, out_closed, in_pipe, adapter, reader, writer, pc,
                    loc, result >>

RelayClose ==
    /\ ~out_closed
    /\ out_closed' = TRUE
    /\ UNCHANGED << call, relay_doc, out_pipe, in_pipe, adapter, reader, writer, pc, loc,
                    result, hist >>

RelayReconfig ==
    /\ \E d \in Docs \ {relay_doc} : relay_doc' = d
    /\ UNCHANGED << call, out_pipe, out_closed, in_pipe, adapter, reader, writer, pc, loc,
                    result, hist >>

Next ==
    \/ Open
    \/ OpenReadOnly
    \/ OpenWriteOnly
    \/ GetBitrate
    \/ ReadCall
    \/ ReadLen
    \/ ReadBuf
    \/ WriteCall
    \/ WriteData
    \/ WriteNewline
    \/ WriteFlush
    \/ Cancel
    \/ RelayFeed
    \/ RelayClose
    \/ RelayReconfig

Spec == Init /\ [][Next]_vars

(***************************************************************************)
(* The same adapter against a relay that sends every byte it receives on   *)
(* can_<ch>_in back on can_<ch>_out.                                       *)
(***************************************************************************)
InitLoop ==
    /\ call = NoCall
    /\ relay_doc \in Docs
    /\ out_pipe = << >>
    /\ out_closed = FALSE
    /\ in_pipe = << >>
    /\ adapter = "Closed"
    /\ reader = "None"
    /\ writer = "None"
    /\ pc = "idle"
    /\ loc = NoLoc
    /\ result = Result("none", Ok(TRUE))
    /\ hist = [InitHist EXCEPT !.loopback = TRUE]

NextLoop ==
    \/ Open
    \/ OpenReadOnly
    \/ OpenWriteOnly
    \/ GetBitrate
    \/ ReadCall
    \/ ReadLen
    \/ ReadBuf
    \/ WriteCall
    \/ WriteData
    \/ WriteNewline
    \/ WriteFlush
    \/ Cancel
    \/ RelayEcho
    \/ RelayClose
    \/ RelayReconfig

SpecLoop == InitLoop /\ [][NextLoop]_vars

(***************************************************************************)
(* The frame model on its own: a caller calls the constructors with        *)
(* arguments of its choice.                                                *)
(***************************************************************************)
Called(fn, can_id, bytes, len, extended, res) ==
    /\ call' = [fn |-> fn, id |-> can_id, data |-> bytes, len |-> len,
                extended |-> extended, ts |-> None, res |-> res, stamped |-> FALSE,
                native |-> Err("no call"), back |-> Err("no call")]
    /\ UNCHANGED pipeVars

CallNew ==
    \E can_id \in Ids, bytes \in Payloads :
        Called("new", can_id, bytes, 0, FALSE, new(can_id, bytes))

CallNewEff ==
    \E can_id \in Ids, bytes \in Payloads :
        Called("new_eff", can_id, bytes, 0, TRUE, new_eff(can_id, bytes))

CallNewRemote ==
    \E can_id \in Ids, len \in 0..MaxPayloadLen, extended \in BOOLEAN :
        Called("new_remote", can_id, << >>, len, extended, new_remote(can_id, len, extended))

CallNewError ==
    \E can_id \in Ids :
        Called("new_error", can_id, << >>, 0, FALSE, new_error(can_id))

\* frame.set_timestamp(ts) on the frame the last constructor call returned
CallSetTimestamp ==
    /\ call.res.ok
    /\ \E ts \in Timestamps :
         call' = [call EXCEPT !.res = Ok(set_timestamp(Unwrap(call.res), ts)),
                              !.ts = ts, !.stamped = TRUE]
    /\ UNCHANGED pipeVars

\* LinuxCan::write_frame: frame.into()
CallInto ==
    /\ call.res.ok
    /\ call' = [call EXCEPT !.native = into(Unwrap(call.res)), !.back = Err("no call")]
    /\ UNCHANGED pipeVars

\* LinuxCan::read_frame: frame.into() of the native frame
CallFrom ==
    /\ call.native.ok
    /\ call' = [call EXCEPT !.back = from(Unwrap(call.native))]
    /\ UNCHANGED pipeVars

InitFrame == Init

NextFrame ==
    \/ CallNew
    \/ CallNewEff
    \/ CallNewRemote
    \/ CallNewError
    \/ CallSetTimestamp
    \/ CallInto
    \/ CallFrom

SpecFrame == InitFrame /\ [][NextFrame]_vars

ValidationErrors ==
    { "Extended ID must be <= 29 bits (0x1FFFFFFF)",
      "Standard ID must be <= 11 bits (0x7FF)",
      "CAN data must be <= 8 bytes",
      "RTR frame DLC must be <= 8",
      "CAN error frame ID must be <= 29 bits" }

(***************************************************************************)
(* C9: with a payload of at most 8 bytes, new succeeds exactly when        *)
(* id <= 0x7FF and new_eff exactly when id <= 0x1FFFFFFF; the frame built  *)
(* reports the given id and the requested ID space, and is neither a       *)
(* remote nor an error frame; a refused call returns a validation error.   *)
(***************************************************************************)
C9_DataFrameIdValidation ==
    (call.fn \in {"new", "new_eff"} /\ Len(call.data) <= 8) =>
        LET ext == (call.fn = "new_eff")
            limit == IF ext THEN 536870911 ELSE 2047
        IN /\ call.res.ok <=> (call.id <= limit)
           /\ call.res.ok =>
                /\ id(Unwrap(call.res)) = call.id
                /\ is_extended(Unwrap(call.res)) = ext
                /\ ~is_rtr(Unwrap(call.res))
                /\ ~is_error(Unwrap(call.res))
           /\ ~call.res.ok => call.res.err \in ValidationErrors

\* an id above the standard range accepted by the extended constructor
C9_Witness ==
    /\ call.fn = "new_eff"
    /\ call.id = 2048
    /\ Len(call.data) <= 8
    /\ call.res.ok
    /\ is_extended(Unwrap(call.res))

(***************************************************************************)
(* C10: a payload longer than 8 bytes is refused by new and by new_eff,    *)
(* whether or not the id is valid for its ID space.                        *)
(***************************************************************************)
C10_LongPayloadRefused ==
    (call.fn \in {"new", "new_eff"} /\ Len(call.data) > 8) =>
        /\ ~call.res.ok
        /\ call.res.err \in ValidationErrors

\* nine bytes with an id that is valid in the standard space
C10_Witness ==
    /\ call.fn = "new"
    /\ Len(call.data) = 9
    /\ call.id <= 2047
    /\ ~call.res.ok
    /\ call.res.err = "CAN data must be <= 8 bytes"

(***************************************************************************)
(* C11: new_remote(id, requested_len, extended) succeeds exactly when      *)
(* requested_len <= 8 and the id is within the range of the requested ID   *)
(* space; the frame built is a remote frame (is_rtr, not is_error) with    *)
(* dlc = requested_len, the given id and ID space, and a payload of zeros. *)
(***************************************************************************)
C11_RemoteFrame ==
    call.fn = "new_remote" =>
        LET limit == IF call.extended THEN 536870911 ELSE 2047
        IN /\ call.res.ok <=> (call.len <= 8 /\ call.id <= limit)
           /\ call.res.ok =>
                /\ is_rtr(Unwrap(call.res))
                /\ ~is_error(Unwrap(call.res))
                /\ dlc(Unwrap(call.res)) = call.len
                /\ id(Unwrap(call.res)) = call.id
                /\ is_extended(Unwrap(call.res)) = call.extended
                /\ Unwrap(call.res).data = << 0, 0, 0, 0, 0, 0, 0, 0 >>
                /\ \A i \in 1..call.len : data(Unwrap(call.res))[i] = 0
           /\ ~call.res.ok => call.res.err \in ValidationErrors

\* the example of the protocol description: new_remote(0x123, 4, false)
C11_Witness ==
    /\ call.fn = "new_remote"
    /\ call.id = 291
    /\ call.len = 4
    /\ ~call.extended
    /\ call.res.ok
    /\ dlc(Unwrap(call.res)) = 4

(***************************************************************************)
(* C12: new_error(id) succeeds exactly when id <= 0x1FFFFFFF; the frame    *)
(* built is an error frame without payload: is_error, not is_rtr, dlc 0,   *)
(* data() empty; for a larger id the call fails.                           *)
(***************************************************************************)
C12_ErrorFrame ==
    call.fn = "new_error" =>
        /\ call.res.ok <=> (call.id <= 536870911)
        /\ call.res.ok =>
             /\ is_error(Unwrap(call.res))
             /\ ~is_rtr(Unwrap(call.res))
             /\ dlc(Unwrap(call.res)) = 0
             /\ data(Unwrap(call.res)) = << >>
             /\ id(Unwrap(call.res)) = call.id
        /\ ~call.res.ok => call.res.err \in ValidationErrors

\* an error id above the standard range is accepted
C12_Witness ==
    /\ call.fn = "new_error"
    /\ call.id = 536870911
    /\ call.res.ok
    /\ is_error(Unwrap(call.res))
    /\ dlc(Unwrap(call.res)) = 0

(***************************************************************************)
(* Wire records as the protocol description has them:                      *)
(* [1-byte length][encoded frame][newline].                                *)
(***************************************************************************)
WireRecord(f) == << Len(SerializeFrame(f)) >> \o SerializeFrame(f) \o << NEWLINE >>

RECURSIVE IsRecordStream(_)
IsRecordStream(s) ==
    \/ s = << >>
    \/ /\ Len(s) >= s[1] + 2
       /\ s[s[1] + 2] = NEWLINE
       /\ IsRecordStream(SubSeq(s, s[1] + 3, Len(s)))

WritePcs == {"write_data", "write_nl", "write_flush"}
ReadPcs == {"read_len", "read_buf"}

\* the kinds the transport itself reports in this model
TransportErrorKinds == {"BrokenPipe", "NotFound"}

(***************************************************************************)
(* C1: a write_frame that returns Ok has appended to the outbound stream   *)
(* exactly one record, length byte then encoded frame then newline, the    *)
(* length byte being the length of the encoded frame, and has flushed.     *)
(***************************************************************************)
C1_WriteAppendsOneRecord ==
    (result.op = "write_frame" /\ result.ok /\ loc.frame # None) =>
        /\ SubSeq(in_pipe, loc.start + 1, Len(in_pipe)) = WireRecord(loc.frame[1])
        /\ hist.flushed

(***************************************************************************)
(* C2: what successive write_frame calls produce, fed to successive        *)
(* read_frame calls, comes back as the frames written (id, data, dlc,      *)
(* flags), in order, no read failing and no byte left between records.     *)
(***************************************************************************)
Wire(f) == << id(f), data(f), dlc(f), is_extended(f), is_rtr(f), is_error(f) >>

WireAll(fs) == [i \in 1..Len(fs) |-> Wire(fs[i])]

IsPrefix(a, b) == Len(a) <= Len(b) /\ a = SubSeq(b, 1, Len(a))

C2_LoopbackRoundTrip ==
    (hist.loopback /\ hist.mode = "open" /\ ~hist.faults /\ ~out_closed) =>
        /\ ~hist.read_fail
        /\ IsPrefix(WireAll(hist.received), WireAll(hist.written))
        /\ (pc = "idle" /\ hist.echoed = Len(in_pipe)
              /\ Len(hist.received) = Len(hist.written)) => out_pipe = << >>

(***************************************************************************)
(* C13: a frame obtained from any constructor, after any sequence of       *)
(* set_timestamp calls, is exactly one of data, remote and error frame     *)
(* (is_rtr and is_error never both true), has dlc <= 8 and an id within    *)
(* the range of its ID space: <= 0x7FF when it is neither extended nor an  *)
(* error frame, <= 0x1FFFFFFF otherwise.                                   *)
(***************************************************************************)
FrameInvariants(f) ==
    /\ ~(f.is_rtr /\ f.is_error)
    /\ f.dlc <= 8
    /\ f.id <= (IF ~f.is_extended /\ ~f.is_error THEN 2047 ELSE 536870911)

C13_FrameInvariants ==
    call.res.ok => FrameInvariants(Unwrap(call.res))

\* an error frame with an id above the standard range, timestamp set
C13_Witness ==
    /\ call.fn = "new_error"
    /\ call.res.ok
    /\ call.stamped
    /\ timestamp(Unwrap(call.res)) = << 1700000000 >>
    /\ id(Unwrap(call.res)) = 536870911
    /\ ~is_extended(Unwrap(call.res))

(***************************************************************************)
(* C14: a frame built by the data, remote or error constructor, converted  *)
(* to the native frame and back, comes back with the same id, data, dlc,   *)
(* is_extended, is_rtr and is_error.                                       *)
(***************************************************************************)
C14_NativeRoundTrip ==
    (call.res.ok /\ call.native.err # "no call") =>
        /\ call.native.ok
        /\ call.back.err # "no call" =>
              /\ call.back.ok
              /\ Wire(Unwrap(call.back)) = Wire(Unwrap(call.res))

(***************************************************************************)
(* C15: the conversion to the native frame never fails or aborts for a     *)
(* frame the constructors accepted: a standard frame with id <= 0x7FF, an  *)
(* extended frame with id <= 0x1FFFFFFF, an error frame with               *)
(* id <= 0x1FFFFFFF (also above 0x7FF).                                    *)
(***************************************************************************)
C15_IntoIsTotal ==
    (call.res.ok /\ FrameInvariants(Unwrap(call.res)) /\ call.native.err # "no call") =>
        call.native.ok

(***************************************************************************)
(* C16: data() returns the first dlc bytes of the payload buffer, never    *)
(* the whole 8-byte buffer: for a data frame built from payload p it is p  *)
(* itself and dlc() is the length of p; for a remote frame it is dlc zero  *)
(* bytes.                                                                  *)
(***************************************************************************)
C16_DataIsFirstDlcBytes ==
    call.res.ok =>
        LET f == Unwrap(call.res)
        IN /\ Len(data(f)) = dlc(f)
           /\ \A i \in 1..dlc(f) : data(f)[i] = f.data[i]
           /\ call.fn \in {"new", "new_eff"} =>
                 /\ data(f) = call.data
                 /\ dlc(f) = Len(call.data)
           /\ call.fn = "new_remote" =>
                 /\ dlc(f) = call.len
                 /\ data(f) = [i \in 1..call.len |-> 0]

\* a payload of two bytes in a buffer of eight
C16_Witness ==
    /\ call.fn = "new"
    /\ call.res.ok
    /\ call.data = << 222, 173 >>
    /\ data(Unwrap(call.res)) = << 222, 173 >>
    /\ Len(Unwrap(call.res).data) = 8

(***************************************************************************)
(* C17: a frame as a constructor returns it has no timestamp; a            *)
(* set_timestamp call sets the timestamp to the value given and leaves id, *)
(* data, dlc, is_extended, is_rtr and is_error as they were, after any     *)
(* sequence of calls.                                                      *)
(***************************************************************************)
SetTimestampStep ==
    /\ call.res.ok
    /\ call'.stamped
    /\ call'.res # call.res \/ call'.ts # call.ts \/ ~call.stamped

C17_Step ==
    /\ (call'.res.ok /\ ~call'.stamped) => timestamp(Unwrap(call'.res)) = << >>
    /\ SetTimestampStep =>
          /\ call'.res.ok
          /\ timestamp(Unwrap(call'.res)) = call'.ts
          /\ Unwrap(call'.res).id = Unwrap(call.res).id
          /\ Unwrap(call'.res).data = Unwrap(call.res).data
          /\ Unwrap(call'.res).dlc = Unwrap(call.res).dlc
          /\ Unwrap(call'.res).is_extended = Unwrap(call.res).is_extended
          /\ Unwrap(call'.res).is_rtr = Unwrap(call.res).is_rtr
          /\ Unwrap(call'.res).is_error = Unwrap(call.res).is_error

C17_TimestampOnlyMutation == [][C17_Step]_vars

\* an extended data frame with a full payload, after set_timestamp(Some(0))
C17_Witness ==
    /\ call.fn = "new_eff"
    /\ call.res.ok
    /\ call.stamped
    /\ timestamp(Unwrap(call.res)) = << 0 >>
    /\ data(Unwrap(call.res)) = call.data
    /\ Len(call.data) = 8
    /\ id(Unwrap(call.res)) = call.id

(***************************************************************************)
(* C3: in every open mode the adapter is Open only if the config document  *)
(* the relay serves at open is well formed and its version equals the      *)
(* required one; when the relay reports another version or a malformed     *)
(* document, no frame byte is ever read or written on the channel.         *)
(***************************************************************************)
RelayMatchedAtOpen ==
    /\ hist.open_doc # None
    /\ hist.open_doc[1].wellformed
    /\ hist.open_doc[1].version = WIN_CAN_UTILS_TARGET_VERSION

C3_OpenOnlyAfterVersionCheck ==
    /\ adapter = "Open" => RelayMatchedAtOpen
    /\ (adapter # "Closed" /\ ~RelayMatchedAtOpen) => ~hist.frame_io

(***************************************************************************)
(* C4: on an adapter opened read-only every write_frame fails with the     *)
(* invalid-operation error (ErrorKind::InvalidData in this crate), and on  *)
(* one opened write-only every read_frame does; no step of such an adapter *)
(* moves a byte on the pipe it has not opened or changes reader / writer.  *)
(***************************************************************************)
C4_Step ==
    /\ (adapter = "Open" /\ hist.mode = "open_read_only") =>
          /\ writer = "None" /\ writer' = "None" /\ reader' = reader
          /\ pc' \notin WritePcs
          /\ in_pipe' = in_pipe
          /\ result'.op = "write_frame" => Failed(result', "InvalidData")
    /\ (adapter = "Open" /\ hist.mode = "open_write_only") =>
          /\ reader = "None" /\ reader' = "None" /\ writer' = writer
          /\ pc' \notin ReadPcs
          /\ IsPrefix(out_pipe, out_pipe')
          /\ result'.op = "read_frame" => Failed(result', "InvalidData")

C4_ModeRestrictions == [][C4_Step]_vars

\* a write refused on a read-only adapter that has read from its pipe before
C4_Witness ==
    /\ hist.mode = "open_read_only"
    /\ hist.frame_io
    /\ result.op = "write_frame"
    /\ Failed(result, "InvalidData")
    /\ in_pipe = << >>

(***************************************************************************)
(* C5: a read_frame whose read of the length byte, or of the payload after *)
(* the length byte, obtains zero bytes fails with UnexpectedEof; a frame   *)
(* is returned only from a payload that was read whole and is not empty.   *)
(***************************************************************************)
C5_ZeroBytesIsUnexpectedEof ==
    (result.op = "read_frame" /\ pc = "idle") =>
        /\ hist.zero_read => Failed(result, "UnexpectedEof")
        /\ result.ok =>
              /\ Len(hist.taken) > 0
              /\ Len(hist.taken) = loc.len_prefix
              /\ decode_from_slice(hist.taken) = Ok(result.frame[1])

\* the length byte arrived, then the stream ended before any payload byte
C5_Witness ==
    /\ result.op = "read_frame"
    /\ pc = "idle"
    /\ loc.len_prefix > 0
    /\ hist.zero_read
    /\ Failed(result, "UnexpectedEof")

BitrateReturned ==
    /\ result'.op = "get_bitrate"
    /\ result' # result

C7_Step ==
    BitrateReturned =>
        /\ result'.ok =>
              /\ hist'.cfg_reads
              /\ relay_doc.wellformed
              /\ result'.bitrate[1] = relay_doc.bitrate
        /\ ~result'.ok =>
              \/ result'.err = "NotFound"
              \/ hist'.cfg_reads /\ ~relay_doc.wellformed /\ result'.err = "InvalidData"

C8_OnlyCompleteRecords ==
    pc \notin WritePcs => IsRecordStream(in_pipe)

(***************************************************************************)
(* C18: after a read_frame that failed once the length byte was taken and  *)
(* before the whole payload was read (I/O error or end of stream), the     *)
(* channel is closed: every later read_frame on the adapter fails, so no   *)
(* frame is ever returned from bytes that are not aligned with the record  *)
(* boundaries.                                                             *)
(***************************************************************************)
C18_MidFrameFailureCloses ==
    (hist.desync /\ result.op = "read_frame" /\ pc = "idle") => ~result.ok

(***************************************************************************)
(* Steps of the calls in flight, and what a step of one direction leaves   *)
(* alone in the other.                                                     *)
(***************************************************************************)
FullDuplex == adapter = "Open" /\ hist.mode = "open"

ReadStep == pc' # pc /\ (pc \in ReadPcs \/ pc' \in ReadPcs)

WriteStep == pc' # pc /\ (pc \in WritePcs \/ pc' \in WritePcs)

NoInterference ==
    /\ WriteStep =>
          /\ out_pipe' = out_pipe
          /\ out_closed' = out_closed
          /\ reader' = reader
          /\ result'.op # "read_frame" \/ result' = result
    /\ ReadStep =>
          /\ in_pipe' = in_pipe
          /\ writer' = writer
          /\ hist'.flushed = hist.flushed
          /\ result'.op # "write_frame" \/ result' = result

(***************************************************************************)
(* C19 as stated: on a full-duplex adapter one reader and one writer may   *)
(* run concurrently: while a read_frame is in flight a write_frame can be  *)
(* started on the same adapter, and while a write_frame is in flight a     *)
(* read_frame can; under every interleaving the steps of the write change  *)
(* nothing of the inbound stream or the reader and the steps of the read   *)
(* nothing of the outbound stream or the writer.                           *)
(***************************************************************************)
C19_ConcurrentStep ==
    FullDuplex =>
        /\ (pc \in ReadPcs /\ hist.writes + hist.fed < MaxTraffic) => ENABLED WriteCall
        /\ pc \in WritePcs => ENABLED ReadCall
        /\ NoInterference

C19_Step ==
    FullDuplex =>
        /\ ~(ReadStep /\ WriteStep)
        /\ pc \in ReadPcs => ~ENABLED WriteCall
        /\ pc \in WritePcs => ~ENABLED ReadCall
        /\ NoInterference

C20_ReceivedFramesAreValid ==
    (result.op = "read_frame" /\ result.ok) =>
        /\ FrameInvariants(result.frame[1])
        /\ result.frame[1].dlc <= Len(result.frame[1].data)

====
